---- MODULE Spec2Model ----
(***************************************************************************)
(* Model of visualize_results.py: the mask loader, the polygon rasterizer, *)
(* the dataset statistics and the sample visualizer with its entry point.  *)
(*                                                                         *)
(* Coordinates of annotation points are written in halves (the value v     *)
(* stands for v/2), so that int() is a real truncation and not the         *)
(* identity.  RGB colours are triples.  A Python exception is the outcome  *)
(* raised = TRUE of the operator that models the call.                     *)
(***************************************************************************)
EXTENDS Integers, Sequences, FiniteSets, TLC

VARIABLES
    r_pc,                \* rasterizer harness: "call" or "returned"
    r_mask_data,         \* the annotation record handed to the rasterizer
    r_image_size,        \* the requested image size <<width, height>>
    r_result,            \* what create_mask_from_polygons produced
    pc,                  \* position of the script
    mask_files,          \* the scanned directory: the file at each position
    num_samples,         \* requested sample count of visualize_sample_masks
    s_i,                 \* analyze_dataset_stats: files iterated so far
    total_buildings,     \* analyze_dataset_stats: running sum
    buildings_per_tile,  \* analyze_dataset_stats: counts of the loaded files
    error_log,           \* analyze_dataset_stats: files reported by the except
    stats,               \* value returned by analyze_dataset_stats
    sample_files,        \* visualize_sample_masks: the drawn sample (indices)
    v_i,                 \* visualize_sample_masks: loop index
    axes,                \* the subplot grid: cell -> what it shows
    handled,             \* sample positions whose loop iteration completed
    shown,               \* plt.show() was reached
    total_files,         \* value returned by visualize_sample_masks
    printed              \* the count main prints in its closing line

rvars == <<r_pc, r_mask_data, r_image_size, r_result>>
svars == <<s_i, total_buildings, buildings_per_tile, error_log, stats>>
vvars == <<sample_files, v_i, axes, handled, shown, total_files, printed>>
vars == <<rvars, pc, mask_files, num_samples, svars, vvars>>

----------------------------------------------------------------------------
(* Bounds of the model *)

MaxShapes == 7      \* longest shapes sequence handed to the rasterizer
MaxVaried == 2      \* shapes of a record that are not the plain rectangle
CanvasW == 3        \* width of the requested canvas
CanvasH == 3        \* height of the requested canvas
MaxStatFiles == 3   \* largest directory of the statistics runs
MaxFiles == 7       \* largest directory of the visualizer runs
MaxReq == 7         \* largest requested sample count

----------------------------------------------------------------------------
(* Rasterizer: create_mask_from_polygons *)

Black == <<0, 0, 0>>
White == <<255, 255, 255>>

colors ==
    << <<255, 0, 0>>, <<0, 255, 0>>, <<0, 0, 255>>,
       <<255, 255, 0>>, <<255, 0, 255>>, <<0, 255, 255>> >>

\* int(x) of a number given in halves: truncation toward zero
IntTrunc(v) == IF v >= 0 THEN v \div 2 ELSE -((-v) \div 2)

\* Image.new('RGB', image_size, (0, 0, 0))
ImageNew(image_size) ==
    [p \in (0..(image_size[1] - 1)) \X (0..(image_size[2] - 1)) |-> Black]

SeqRange(s) == {s[k] : k \in DOMAIN s}
MinOf(S) == CHOOSE m \in S : \A x \in S : m <= x
MaxOf(S) == CHOOSE m \in S : \A x \in S : m >= x

\* Pixels touched by ImageDraw.polygon for the vertex lists of the model
\* (the corners of an axis-aligned rectangle in order, or collinear points):
\* the closed box spanned by the vertices, and its boundary.
PolyBox(points) ==
    LET xs == {points[k][1] : k \in DOMAIN points}
        ys == {points[k][2] : k \in DOMAIN points}
    IN  [x0 |-> MinOf(xs), x1 |-> MaxOf(xs), y0 |-> MinOf(ys), y1 |-> MaxOf(ys)]

PolyCover(points) ==
    LET b == PolyBox(points)
    IN  (b.x0 .. b.x1) \X (b.y0 .. b.y1)

PolyOutline(points) ==
    LET b == PolyBox(points)
    IN  {p \in (b.x0 .. b.x1) \X (b.y0 .. b.y1) :
            p[1] = b.x0 \/ p[1] = b.x1 \/ p[2] = b.y0 \/ p[2] = b.y1}

\* Variant of polygon that paints only pixels still black
PolygonKeepFirst(image, points, fill, outline) ==
    [p \in DOMAIN image |->
        IF image[p] # Black THEN image[p]
        ELSE IF p \in PolyOutline(points) THEN outline
        ELSE IF p \in PolyCover(points) THEN fill
        ELSE image[p]]

\* draw.polygon(points, fill=color, outline=(255, 255, 255)); pixels outside
\* the image are clipped
polygon(image, points, fill, outline) ==
    LET edge == PolyOutline(points)
        cover == PolyCover(points)
    IN  [p \in DOMAIN image |->
            IF p \in edge THEN outline
            ELSE IF p \in cover THEN fill
            ELSE image[p]]

\* mask_data.get('shapes', []): a JSON object answers, anything else has no
\* .get and raises AttributeError
GetShapes(mask_data) ==
    IF mask_data.kind # "object" THEN [raised |-> TRUE, value |-> <<>>]
    ELSE IF "shapes" \in mask_data.keys
         THEN [raised |-> FALSE, value |-> mask_data.shapes]
         ELSE [raised |-> FALSE, value |-> <<>>]

\* Variant of ShapeStep that draws any polygon with at least one point
ShapeStepNoLenCheck(st, i, shape) ==
    IF "shape_type" \notin DOMAIN shape THEN [st EXCEPT !.raised = TRUE]
    ELSE IF shape.shape_type # "polygon" THEN st
    ELSE IF \E k \in DOMAIN shape.points : Len(shape.points[k]) # 2
         THEN [st EXCEPT !.raised = TRUE]
    ELSE LET points == [k \in DOMAIN shape.points |->
                          <<IntTrunc(shape.points[k][1]), IntTrunc(shape.points[k][2])>>]
             color == colors[(i % Len(colors)) + 1]
         IN  IF Len(points) >= 1
             THEN [st EXCEPT
                     !.mask_image = polygon(@, points, color, White),
                     !.calls = Append(@, [i |-> i, points |-> points,
                                          fill |-> color, outline |-> White])]
             ELSE st

\* Variant of ShapeStep whose colour index counts the shapes drawn so far
ShapeStepCountDrawn(st, i, shape) ==
    IF "shape_type" \notin DOMAIN shape THEN [st EXCEPT !.raised = TRUE]
    ELSE IF shape.shape_type # "polygon" THEN st
    ELSE IF \E k \in DOMAIN shape.points : Len(shape.points[k]) # 2
         THEN [st EXCEPT !.raised = TRUE]
    ELSE LET points == [k \in DOMAIN shape.points |->
                          <<IntTrunc(shape.points[k][1]), IntTrunc(shape.points[k][2])>>]
             color == colors[(Len(st.calls) % Len(colors)) + 1]
         IN  IF Len(points) >= 3
             THEN [st EXCEPT
                     !.mask_image = polygon(@, points, color, White),
                     !.calls = Append(@, [i |-> i, points |-> points,
                                          fill |-> color, outline |-> White])]
             ELSE st

\* Variant of ShapeStep that never paints over an earlier shape
ShapeStepKeepFirst(st, i, shape) ==
    IF "shape_type" \notin DOMAIN shape THEN [st EXCEPT !.raised = TRUE]
    ELSE IF shape.shape_type # "polygon" THEN st
    ELSE IF \E k \in DOMAIN shape.points : Len(shape.points[k]) # 2
         THEN [st EXCEPT !.raised = TRUE]
    ELSE LET points == [k \in DOMAIN shape.points |->
                          <<IntTrunc(shape.points[k][1]), IntTrunc(shape.points[k][2])>>]
             color == colors[(i % Len(colors)) + 1]
         IN  IF Len(points) >= 3
             THEN [st EXCEPT
                     !.mask_image = PolygonKeepFirst(@, points, color, White),
                     !.calls = Append(@, [i |-> i, points |-> points,
                                          fill |-> color, outline |-> White])]
             ELSE st

\* One iteration of the loop over enumerate(shapes); i is the 0-based index.
\* st = [raised, mask_image, calls]; calls lists the draw.polygon calls made.
\* A missing shape_type key raises KeyError, a point that is no pair raises
\* ValueError in the unpacking.
ShapeStep(st, i, shape) ==
    IF "shape_type" \notin DOMAIN shape THEN [st EXCEPT !.raised = TRUE]
    ELSE IF shape.shape_type # "polygon" THEN st
    ELSE IF \E k \in DOMAIN shape.points : Len(shape.points[k]) # 2
         THEN [st EXCEPT !.raised = TRUE]
    ELSE LET points == [k \in DOMAIN shape.points |->
                          <<IntTrunc(shape.points[k][1]), IntTrunc(shape.points[k][2])>>]
             color == colors[(i % Len(colors)) + 1]
         IN  IF Len(points) >= 3
             THEN [st EXCEPT
                     !.mask_image = polygon(@, points, color, White),
                     !.calls = Append(@, [i |-> i, points |-> points,
                                          fill |-> color, outline |-> White])]
             ELSE st

RECURSIVE ShapeLoop(_, _, _)
ShapeLoop(shapes, i, st) ==
    IF st.raised \/ i >= Len(shapes) THEN st
    ELSE ShapeLoop(shapes, i + 1, ShapeStep(st, i, shapes[i + 1]))

create_mask_from_polygons(mask_data, image_size) ==
    LET got == GetShapes(mask_data)
        st0 == [raised |-> FALSE, mask_image |-> ImageNew(image_size), calls |-> <<>>]
    IN  IF got.raised THEN [st0 EXCEPT !.raised = TRUE]
        ELSE ShapeLoop(got.value, 0, st0)

----------------------------------------------------------------------------
(* Inputs of the rasterizer *)

\* 4 corners around the box (0,0)-(2,2); -0.5 and 2.5 truncate to 0 and 2
RectA == [shape_type |-> "polygon",
          points |-> << <<-1, -1>>, <<5, -1>>, <<5, 5>>, <<-1, 5>> >>]
\* the box (1,1)-(4,4), which overlaps RectA and leaves the small canvases
RectB == [shape_type |-> "polygon",
          points |-> << <<2, 2>>, <<8, 2>>, <<8, 8>>, <<2, 8>> >>]
\* a polygon of 2 points
Line2 == [shape_type |-> "polygon", points |-> << <<0, 0>>, <<4, 4>> >>]
\* a polygon of no point
Empty0 == [shape_type |-> "polygon", points |-> << >>]
\* a shape of another type, with enough points for a polygon
NonPoly == [shape_type |-> "rectangle",
            points |-> << <<0, 0>>, <<4, 0>>, <<4, 4>>, <<0, 4>> >>]
\* a polygon one of whose points is no pair: the unpacking raises ValueError
BadPts == [shape_type |-> "polygon",
           points |-> << <<0, 0>>, <<2, 2, 2>>, <<4, 0>> >>]
\* a shape without the shape_type key: KeyError
NoType == [points |-> << <<0, 0>>, <<4, 0>>, <<4, 4>> >>]

VariedShapes == {RectB, Line2, Empty0, NonPoly, BadPts, NoType}

Skipped(shape) ==
    /\ "shape_type" \in DOMAIN shape
    /\ \/ shape.shape_type # "polygon"
       \/ /\ Len(shape.points) < 3
          /\ \A k \in DOMAIN shape.points : Len(shape.points[k]) = 2

Object(shapes) == [kind |-> "object", keys |-> {"shapes"}, shapes |-> shapes]
NoShapesKey == [kind |-> "object", keys |-> {"version"}, shapes |-> << >>]
JsonArray == [kind |-> "array", keys |-> {}, shapes |-> << >>]

\* shapes sequences of length n in which at most MaxVaried entries differ
\* from RectA
ShapeSeqs(n) ==
    {[k \in 1..n |-> IF k \in P THEN g[k] ELSE RectA] :
        <<P, g>> \in UNION {{<<Q, h>> : h \in [Q -> VariedShapes]} :
                        Q \in {R \in SUBSET (1..n) : Cardinality(R) <= MaxVaried}}}

ImageSizes == {<<CanvasW, CanvasH>>, <<CanvasW - 1, CanvasH>>}

idle == [raised |-> FALSE, mask_image |-> << >>, calls |-> << >>]

MainIdle ==
    /\ pc = "idle" /\ mask_files = << >> /\ num_samples = 0
    /\ s_i = 0 /\ total_buildings = 0 /\ buildings_per_tile = << >>
    /\ error_log = << >> /\ stats = << >>
    /\ sample_files = << >> /\ v_i = 0 /\ axes = << >> /\ handled = {}
    /\ shown = FALSE /\ total_files = 0 /\ printed = 0

InitRaster ==
    /\ r_pc = "call"
    /\ \E n \in 0..MaxShapes : \E s \in ShapeSeqs(n) :
          r_mask_data \in {Object(s), NoShapesKey, JsonArray}
    /\ r_image_size \in ImageSizes
    /\ r_result = idle
    /\ MainIdle

Rasterize ==
    /\ r_pc = "call"
    /\ r_result' = create_mask_from_polygons(r_mask_data, r_image_size)
    /\ r_pc' = "returned"
    /\ UNCHANGED <<r_mask_data, r_image_size, pc, mask_files, num_samples, svars, vvars>>

NextRaster == Rasterize

SpecRaster == InitRaster /\ [][NextRaster]_vars

----------------------------------------------------------------------------
(* Mask loader and the files of a directory *)

\* The files a directory may hold, by name, and what each holds on disk
Json(value) == [text |-> "json", value |-> value]
Corrupt == [text |-> "corrupt", value |-> JsonArray]

FileKinds == <<"two", "corrupt", "badpts", "nokey", "array", "five">>

FileContent(mask_file) ==
    CASE mask_file = "two" -> Json(Object(<<RectA, Line2>>))
      [] mask_file = "corrupt" -> Corrupt
      [] mask_file = "badpts" -> Json(Object(<<RectB, BadPts>>))
      [] mask_file = "nokey" -> Json(NoShapesKey)
      [] mask_file = "array" -> Json(JsonArray)
      [] mask_file = "five" ->
            Json(Object(<<RectB, RectA, NonPoly, RectA, RectB>>))

\* load_mask_data: open + json.load; a file that is no well-formed JSON raises
load_mask_data(mask_file) ==
    LET content == FileContent(mask_file)
    IN  IF content.text = "json"
        THEN [raised |-> FALSE, value |-> content.value]
        ELSE [raised |-> TRUE, value |-> content.value]

\* list(masks_path.glob('*.json')) for the statistics runs: any kinds
StatDirs ==
    UNION {[1..n -> SeqRange(FileKinds)] : n \in 0..MaxStatFiles}

\* ... and for the visualizer runs: the first n files of a directory that
\* cycles through the kinds
CycleDir(n) == [j \in 1..n |-> FileKinds[((j - 1) % Len(FileKinds)) + 1]]

----------------------------------------------------------------------------
(* Stats aggregator: analyze_dataset_stats *)

RECURSIVE SeqSum(_)
SeqSum(s) == IF s = << >> THEN 0 ELSE s[1] + SeqSum(Tail(s))

\* np.mean as an exact fraction
mean(xs) == [num |-> SeqSum(xs), den |-> Len(xs)]
Zero == [num |-> 0, den |-> 1]

\* Variant of StatsIter that counts a failing file as a tile of 0 buildings
StatsIterCountFailed(acc, j, mask_file) ==
    LET loaded == load_mask_data(mask_file)
        got == GetShapes(loaded.value)
    IN  IF loaded.raised \/ got.raised
        THEN [acc EXCEPT !.buildings_per_tile = Append(@, 0),
                         !.error_log = Append(@, j)]
        ELSE [acc EXCEPT !.total_buildings = @ + Len(got.value),
                         !.buildings_per_tile = Append(@, Len(got.value))]

\* body of "for mask_file in mask_files": try / except Exception
\* acc = [total_buildings, buildings_per_tile, error_log]; j is the file
StatsIter(acc, j, mask_file) ==
    LET loaded == load_mask_data(mask_file)
        got == GetShapes(loaded.value)
    IN  IF loaded.raised \/ got.raised
        THEN [acc EXCEPT !.error_log = Append(@, j)]
        ELSE [acc EXCEPT !.total_buildings = @ + Len(got.value),
                         !.buildings_per_tile = Append(@, Len(got.value))]

\* Variant of StatsResult without the empty case: max() and min() of an
\* empty list raise ValueError
StatsResultUnguarded(files, total, per_tile) ==
    IF per_tile = << >>
    THEN [raised |-> TRUE, total_tiles |-> 0, total_buildings |-> 0,
          avg_buildings_per_tile |-> Zero,
          max_buildings_per_tile |-> 0, min_buildings_per_tile |-> 0]
    ELSE [raised |-> FALSE,
          total_tiles |-> Len(files),
          total_buildings |-> total,
          avg_buildings_per_tile |-> mean(per_tile),
          max_buildings_per_tile |-> MaxOf(SeqRange(per_tile)),
          min_buildings_per_tile |-> MinOf(SeqRange(per_tile))]

\* the returned dictionary
StatsResult(files, total, per_tile) ==
    [raised |-> FALSE,
     total_tiles |-> Len(files),
     total_buildings |-> total,
     avg_buildings_per_tile |-> IF per_tile # << >> THEN mean(per_tile) ELSE Zero,
     max_buildings_per_tile |->
        IF per_tile # << >> THEN MaxOf(SeqRange(per_tile)) ELSE 0,
     min_buildings_per_tile |->
        IF per_tile # << >> THEN MinOf(SeqRange(per_tile)) ELSE 0]

NoStats == StatsResult(<< >>, 0, << >>)
NoValue == [none |-> TRUE, value |-> 0]

StatsStart ==
    /\ pc = "stats"
    /\ s_i = 0 /\ total_buildings = 0 /\ buildings_per_tile = << >>
    /\ error_log = << >> /\ stats = NoStats

VizIdle ==
    /\ sample_files = << >> /\ v_i = 0 /\ axes = << >> /\ handled = {}
    /\ shown = FALSE /\ total_files = NoValue /\ printed = NoValue

RasterIdle ==
    /\ r_pc = "idle" /\ r_mask_data = JsonArray
    /\ r_image_size = <<CanvasW, CanvasH>> /\ r_result = idle

InitStats ==
    /\ mask_files \in StatDirs
    /\ num_samples = 0
    /\ StatsStart /\ VizIdle /\ RasterIdle

StatsStep ==
    /\ pc = "stats"
    /\ s_i < Len(mask_files)
    /\ LET acc == StatsIter([total_buildings |-> total_buildings,
                             buildings_per_tile |-> buildings_per_tile,
                             error_log |-> error_log],
                            s_i + 1, mask_files[s_i + 1])
       IN  /\ total_buildings' = acc.total_buildings
           /\ buildings_per_tile' = acc.buildings_per_tile
           /\ error_log' = acc.error_log
    /\ s_i' = s_i + 1
    /\ UNCHANGED <<rvars, pc, mask_files, num_samples, stats, vvars>>

StatsReturn ==
    /\ pc = "stats"
    /\ s_i = Len(mask_files)
    /\ stats' = StatsResult(mask_files, total_buildings, buildings_per_tile)
    /\ pc' = IF stats'.raised THEN "crashed" ELSE "stats_done"
    /\ UNCHANGED <<rvars, mask_files, num_samples, s_i, total_buildings,
                   buildings_per_tile, error_log, vvars>>

NextStats == StatsStep \/ StatsReturn

SpecStats == InitStats /\ [][NextStats]_vars

----------------------------------------------------------------------------
(* Sample visualizer: visualize_sample_masks, and main *)

GridRows == 2
GridCols == 3

\* plt.subplots(2, 3): the cells axes[row, col]
Cells == (0..(GridRows - 1)) \X (0..(GridCols - 1))
\* a cell shows nothing, the mask image of a file with its building count, or
\* the error text of a file
Blank == [kind |-> "blank", file |-> 0, buildings |-> 0]
subplots == [c \in Cells |-> Blank]

Min2(a, b) == IF a <= b THEN a ELSE b

\* random.sample(population, k): every ordering of every k-subset
RECURSIVE sample(_, _)
sample(population, k) ==
    IF k = 0 THEN {<< >>}
    ELSE UNION {{<<x>> \o s : s \in sample(population \ {x}, k - 1)} :
                  x \in population}

\* Variant of VizIter whose overlay counts only the shapes drawn
VizIterCountDrawn(ax, i, f, mask_file) ==
    LET row == i \div 3
        col == i % 3
        inGrid == <<row, col>> \in Cells
        loaded == load_mask_data(mask_file)
        made == create_mask_from_polygons(loaded.value, <<CanvasW, CanvasH>>)
        tryRaised == loaded.raised \/ made.raised \/ ~inGrid
    IN  IF ~tryRaised
        THEN [crashed |-> FALSE,
              axes |-> [ax EXCEPT ![<<row, col>>] =
                          [kind |-> "image", file |-> f,
                           buildings |-> Len(made.calls)]]]
        ELSE IF inGrid
        THEN [crashed |-> FALSE,
              axes |-> [ax EXCEPT ![<<row, col>>] =
                          [kind |-> "error", file |-> f, buildings |-> 0]]]
        ELSE [crashed |-> TRUE, axes |-> ax]

\* body of "for i, mask_file in enumerate(sample_files)"; i is 0-based and f
\* the index of mask_file in the directory.  Indexing axes[row, col] outside
\* the grid raises IndexError: inside the try it is caught, inside the
\* except handler it leaves the function.
VizIter(ax, i, f, mask_file) ==
    LET row == i \div 3
        col == i % 3
        inGrid == <<row, col>> \in Cells
        loaded == load_mask_data(mask_file)
        made == create_mask_from_polygons(loaded.value, <<CanvasW, CanvasH>>)
        tryRaised == loaded.raised \/ made.raised \/ ~inGrid
    IN  IF ~tryRaised
        THEN [crashed |-> FALSE,
              axes |-> [ax EXCEPT ![<<row, col>>] =
                          [kind |-> "image", file |-> f,
                           buildings |-> Len(GetShapes(loaded.value).value)]]]
        ELSE IF inGrid
        THEN [crashed |-> FALSE,
              axes |-> [ax EXCEPT ![<<row, col>>] =
                          [kind |-> "error", file |-> f, buildings |-> 0]]]
        ELSE [crashed |-> TRUE, axes |-> ax]

InitMain ==
    /\ \E n \in 0..MaxFiles : mask_files = CycleDir(n)
    /\ num_samples \in 0..MaxReq
    /\ StatsStart /\ VizIdle /\ RasterIdle

\* "if not mask_files: print(...); return": the function returns None
VizScanEmpty ==
    /\ pc = "stats_done"
    /\ mask_files = << >>
    /\ total_files' = NoValue
    /\ pc' = "viz_returned"
    /\ UNCHANGED <<rvars, mask_files, num_samples, svars, sample_files, v_i,
                   axes, handled, shown, printed>>

VizSample ==
    /\ pc = "stats_done"
    /\ mask_files # << >>
    /\ sample_files' \in sample(DOMAIN mask_files,
                                Min2(num_samples, Len(mask_files)))
    /\ axes' = subplots
    /\ v_i' = 0
    /\ pc' = "viz_loop"
    /\ UNCHANGED <<rvars, mask_files, num_samples, svars, handled, shown,
                   total_files, printed>>

VizStep ==
    /\ pc = "viz_loop"
    /\ v_i < Len(sample_files)
    /\ LET f == sample_files[v_i + 1]
           r == VizIter(axes, v_i, f, mask_files[f])
       IN  /\ axes' = r.axes
           /\ IF r.crashed
              THEN pc' = "crashed" /\ UNCHANGED <<v_i, handled>>
              ELSE pc' = pc /\ v_i' = v_i + 1 /\ handled' = handled \cup {v_i}
    /\ UNCHANGED <<rvars, mask_files, num_samples, svars, sample_files, shown,
                   total_files, printed>>

\* plt.tight_layout(); plt.show(); return len(mask_files)
VizShow ==
    /\ pc = "viz_loop"
    /\ v_i = Len(sample_files)
    /\ shown' = TRUE
    /\ total_files' = [none |-> FALSE, value |-> Len(mask_files)]
    /\ pc' = "viz_returned"
    /\ UNCHANGED <<rvars, mask_files, num_samples, svars, sample_files, v_i,
                   axes, handled, printed>>

\* main: the closing line prints total_files
MainPrint ==
    /\ pc = "viz_returned"
    /\ printed' = total_files
    /\ pc' = "done"
    /\ UNCHANGED <<rvars, mask_files, num_samples, svars, sample_files, v_i,
                   axes, handled, shown, total_files>>

NextMain ==
    \/ StatsStep \/ StatsReturn
    \/ VizScanEmpty \/ VizSample \/ VizStep \/ VizShow
    \/ MainPrint

SpecMain == InitMain /\ [][NextMain]_vars

----------------------------------------------------------------------------
(* Vocabulary of the properties *)

\* the file is parsed and its record answers .get: it is a loaded tile
Loads(file) ==
    FileContent(file).text = "json" /\ FileContent(file).value.kind = "object"

\* length of the record's shapes sequence, 0 when the key is missing
ShapesOf(file) ==
    IF "shapes" \in FileContent(file).value.keys
    THEN FileContent(file).value.shapes
    ELSE << >>

RECURSIVE CountsOf(_)
CountsOf(files) ==
    IF files = << >> THEN << >>
    ELSE IF Loads(files[1])
         THEN <<Len(ShapesOf(files[1]))>> \o CountsOf(Tail(files))
         ELSE CountsOf(Tail(files))

FailedOf(files) == {j \in DOMAIN files : ~Loads(files[j])}

\* the shape is a polygon of at least 3 well-formed points
Drawable(shape) ==
    /\ "shape_type" \in DOMAIN shape
    /\ shape.shape_type = "polygon"
    /\ Len(shape.points) >= 3
    /\ \A k \in DOMAIN shape.points : Len(shape.points[k]) = 2

IntPoints(shape) ==
    [k \in DOMAIN shape.points |->
        <<IntTrunc(shape.points[k][1]), IntTrunc(shape.points[k][2])>>]

StatsOver == pc \in {"stats_done", "crashed"}

----------------------------------------------------------------------------
(* Properties of analyze_dataset_stats, under SpecStats *)

\* C1 as stated: when no scanned file loads, every numeric field of the
\* returned record, total_tiles included, is 0 and nothing is raised.
CexC1 ==
    (StatsOver /\ \A j \in DOMAIN mask_files : load_mask_data(mask_files[j]).raised) =>
        /\ ~stats.raised
        /\ stats.total_tiles = 0
        /\ stats.total_buildings = 0
        /\ stats.avg_buildings_per_tile.num = 0
        /\ stats.max_buildings_per_tile = 0
        /\ stats.min_buildings_per_tile = 0

\* C1 amended: when no scanned file loads (json.load or the .get of the
\* record raises for each), total_buildings, the average, the maximum and
\* the minimum are 0 and nothing is raised, while total_tiles is the number
\* of files the scan found.
ThmC1 ==
    (StatsOver /\ FailedOf(mask_files) = DOMAIN mask_files) =>
        /\ ~stats.raised
        /\ stats.total_tiles = Len(mask_files)
        /\ stats.total_buildings = 0
        /\ stats.avg_buildings_per_tile.num = 0
        /\ stats.max_buildings_per_tile = 0
        /\ stats.min_buildings_per_tile = 0

WitC1 ==
    /\ pc = "stats_done"
    /\ Len(mask_files) >= 2
    /\ FailedOf(mask_files) = DOMAIN mask_files
    /\ stats.total_tiles = Len(mask_files)
    /\ stats.avg_buildings_per_tile.num = 0

\* C2: a file whose load raises is skipped and the loop goes on; the counts
\* kept are those of exactly the files that loaded, and the returned sum,
\* maximum, minimum and mean are taken over them.
ThmC2 ==
    /\ pc = "stats" =>
          /\ buildings_per_tile = CountsOf(SubSeq(mask_files, 1, s_i))
          /\ SeqRange(error_log) = FailedOf(SubSeq(mask_files, 1, s_i))
    /\ pc = "stats_done" =>
          LET counts == CountsOf(mask_files)
          IN  /\ s_i = Len(mask_files)
              /\ buildings_per_tile = counts
              /\ stats.total_buildings = SeqSum(counts)
              /\ counts # << >> =>
                    /\ stats.max_buildings_per_tile \in SeqRange(counts)
                    /\ \A c \in SeqRange(counts) : c <= stats.max_buildings_per_tile
                    /\ stats.min_buildings_per_tile \in SeqRange(counts)
                    /\ \A c \in SeqRange(counts) : c >= stats.min_buildings_per_tile
                    /\ stats.avg_buildings_per_tile.den = Len(counts)
                    /\ stats.avg_buildings_per_tile.num = SeqSum(counts)

WitC2 ==
    /\ pc = "stats_done"
    /\ Len(mask_files) = 3
    /\ Loads(mask_files[1]) /\ ~Loads(mask_files[2]) /\ Loads(mask_files[3])
    /\ buildings_per_tile = <<5, 2>>
    /\ stats.total_buildings = 7
    /\ stats.avg_buildings_per_tile = [num |-> 7, den |-> 2]
    /\ stats.max_buildings_per_tile = 5
    /\ stats.min_buildings_per_tile = 2

----------------------------------------------------------------------------
(* Properties of create_mask_from_polygons, under SpecRaster *)

RShapes == GetShapes(r_mask_data).value

\* C7: a shape that is no polygon or has fewer than 3 points leaves the
\* canvas as it was and raises nothing; a record whose shapes are empty,
\* missing or all of that kind gives an all-black canvas of the requested size.
ThmC7 ==
    (r_pc = "returned" /\ r_mask_data.kind = "object") =>
        /\ \A k \in DOMAIN RShapes :
              Skipped(RShapes[k]) =>
                 LET before == ShapeLoop(SubSeq(RShapes, 1, k - 1), 0,
                                  [raised |-> FALSE,
                                   mask_image |-> ImageNew(r_image_size),
                                   calls |-> << >>])
                 IN  ShapeStep(before, k - 1, RShapes[k]) = before
        /\ (\A k \in DOMAIN RShapes : Skipped(RShapes[k])) =>
              /\ ~r_result.raised
              /\ DOMAIN r_result.mask_image =
                    (0..(r_image_size[1] - 1)) \X (0..(r_image_size[2] - 1))
              /\ \A p \in DOMAIN r_result.mask_image :
                    r_result.mask_image[p] = Black

WitC7 ==
    /\ r_pc = "returned"
    /\ RShapes = <<Line2, NonPoly>>
    /\ ~r_result.raised
    /\ \A p \in DOMAIN r_result.mask_image : r_result.mask_image[p] = Black

ThmC9 ==
    (r_pc = "returned" /\ ~r_result.raised) =>
        \A p \in DOMAIN r_result.mask_image :
            LET over == {i \in 0..(Len(RShapes) - 1) :
                            /\ Drawable(RShapes[i + 1])
                            /\ p \in PolyCover(IntPoints(RShapes[i + 1]))}
            IN  IF over = {} THEN r_result.mask_image[p] = Black
                ELSE LET top == MaxOf(over)
                     IN  r_result.mask_image[p] =
                            IF p \in PolyOutline(IntPoints(RShapes[top + 1]))
                            THEN White
                            ELSE colors[(top % 6) + 1]

WitC9 ==
    /\ r_pc = "returned"
    /\ ~r_result.raised
    /\ r_image_size = <<CanvasW, CanvasH>>
    /\ RShapes = <<RectA, Line2, RectB>>
    /\ r_result.mask_image[<<1, 1>>] = White
    /\ r_result.mask_image[<<2, 2>>] = <<0, 0, 255>>
    /\ r_result.mask_image[<<0, 0>>] = White

----------------------------------------------------------------------------
(* Properties of visualize_sample_masks and main, under SpecMain *)

VizOver == pc \in {"viz_returned", "done", "crashed"}

CellOf(k) == <<k \div 3, k % 3>>

\* the file at sample position k raises in load_mask_data or in
\* create_mask_from_polygons
BadAt(k) ==
    LET file == mask_files[sample_files[k + 1]]
    IN  \/ load_mask_data(file).raised
        \/ create_mask_from_polygons(load_mask_data(file).value,
                                     <<CanvasW, CanvasH>>).raised

\* C3: the value visualize_sample_masks returns is the number of files the
\* scan found, and main prints that number.
CexC3 ==
    /\ pc = "viz_returned" =>
          (~total_files.none /\ total_files.value = Len(mask_files))
    /\ pc = "done" => (~printed.none /\ printed.value = Len(mask_files))

\* C4: with at least one file found, exactly min(requested, available) files
\* are processed, each a file of the scan and none twice.
CexC4 ==
    (VizOver /\ mask_files # << >>) =>
        /\ Cardinality(handled) = Min2(num_samples, Len(mask_files))
        /\ \A k \in handled : sample_files[k + 1] \in DOMAIN mask_files
        /\ \A k, l \in handled :
              sample_files[k + 1] = sample_files[l + 1] => k = l

\* C5: a selected file that raises gets an error placeholder in its cell,
\* the other selected files are still processed and the figure is shown.
CexC5 ==
    /\ \A k \in handled :
          BadAt(k) => (axes[CellOf(k)].kind = "error"
                          /\ axes[CellOf(k)].file = sample_files[k + 1])
    /\ (pc = "crashed" /\ sample_files # << >>) => ~BadAt(v_i)
    /\ (VizOver /\ \E k \in 0..(Len(sample_files) - 1) : BadAt(k)) =>
          /\ handled = 0..(Len(sample_files) - 1)
          /\ shown

\* C6: the i-th selected file goes to cell (i div 3, i mod 3), a cell of the
\* 2-by-3 grid, and the visualizer ends without an uncaught error.
CexC6 ==
    /\ pc = "viz_loop" =>
          \A k \in 0..(Len(sample_files) - 1) :
              CellOf(k)[1] < 2 /\ CellOf(k)[2] < 3
    /\ pc # "crashed"

\* C10: the building count of a tile, in the statistics and in the overlay,
\* is the length of its shapes sequence (0 without the key), skipped shapes
\* included; the shapes drawn are at most that many, and fewer exactly when
\* a shape is skipped.  (The count of a cell is compared with its file in
\* every state; the shapes drawn for it are counted in the state that
\* follows the iteration writing the cell.)
ThmC10 ==
    /\ pc \in {"stats", "stats_done"} =>
          buildings_per_tile = CountsOf(SubSeq(mask_files, 1, s_i))
    /\ \A k \in handled :
          LET f == sample_files[k + 1]
              cell == axes[CellOf(k)]
          IN  cell.kind = "image" =>
                 /\ cell.file = f
                 /\ cell.buildings = Len(ShapesOf(mask_files[f]))
    /\ (pc = "viz_loop" /\ v_i - 1 \in handled) =>
          LET f == sample_files[v_i]
              cell == axes[CellOf(v_i - 1)]
              shapes == ShapesOf(mask_files[f])
              drawn == Len(create_mask_from_polygons(
                              load_mask_data(mask_files[f]).value,
                              <<CanvasW, CanvasH>>).calls)
          IN  cell.kind = "image" =>
                 /\ drawn <= cell.buildings
                 /\ (drawn < cell.buildings <=>
                        \E j \in DOMAIN shapes : Skipped(shapes[j]))

WitC10 ==
    /\ pc = "done"
    /\ \E k \in handled :
          /\ axes[CellOf(k)].kind = "image"
          /\ axes[CellOf(k)].buildings = 5
          /\ Len(create_mask_from_polygons(
                    load_mask_data(mask_files[sample_files[k + 1]]).value,
                    <<CanvasW, CanvasH>>).calls) = 4
    /\ \E k \in handled :
          /\ axes[CellOf(k)].kind = "image"
          /\ axes[CellOf(k)].buildings = 0
    /\ buildings_per_tile = <<2, 2, 0, 5>>

====
